---- MODULE Spec2Model ----
(***************************************************************************)
(* State-machine model of voice_control_node.py: the capture thread        *)
(* (capture_audio_loop), the keyboard listener callback (on_key_press),    *)
(* the recognition threads (process_audio) and the shutdown (destroy_node),*)
(* together with the pure helpers they call.                               *)
(*                                                                         *)
(* Specifications.  Spec is the running node; SpecLifecycle adds           *)
(* destroy_node and the failed start; FairSpec is the running node under a *)
(* fair scheduler of the recognition threads; SpecCalls calls              *)
(* handle_final_result, the capture step and close() on their own.         *)
(*                                                                         *)
(* Conventions.  A bytes object is a sequence of chunks; one device read   *)
(* yields one chunk [id, rate, channels], id being the ordinal of the      *)
(* read.  A text is a sequence of character tokens, one token per Chinese  *)
(* character, written in pinyin ("qian","jin" for the phrase of line 169). *)
(* A JSON object is a record; a key that may be absent is read with Get.   *)
(* Velocities are in tenths of a unit (0.2 is 2).                          *)
(***************************************************************************)
EXTENDS Integers, Sequences, FiniteSets, TLC

VARIABLES
    creds,             \* XFYUN_APPID / XFYUN_APIKEY / XFYUN_APISECRET (lines 27-29)
    audio_mgr,         \* the AudioDeviceManager (lines 39-44)
    stop_event,        \* threading.Event (line 149)
    destroy_timer,     \* the timer registered by the quit key (line 196)
    listener,          \* keyboard listener thread: "running" / "stopped"
    is_recording,      \* line 164
    audio_buffer,      \* line 165: a list of bytes objects
    recording_lock,    \* line 166: "free" or the name of the holder
    cap_pc,            \* position of the capture thread
    raw_data,          \* local of capture_audio_loop (line 222)
    nreads,            \* number of frames the device has delivered so far
    key_pc,            \* position of the listener callback
    tasks,             \* the recognition threads, by order of creation
    nspace,            \* history: number of space-key events
    ntoggles,          \* history: number of flips of is_recording
    session,           \* history: the frames read, and those delivered to the
                       \* locked step, during the running recording
    closed,            \* history: one record per Recording->Idle transition
    destroy_pc,        \* position of destroy_node (lines 327-345)
    call               \* a direct call of one method: its arguments and result

vars == <<creds, destroy_pc, call, audio_mgr, stop_event, destroy_timer, listener, is_recording,
          audio_buffer, recording_lock, cap_pc, raw_data, nreads, key_pc,
          tasks, nspace, ntoggles, session, closed>>

(***************************************************************************)
(* Bounds                                                                  *)
(***************************************************************************)
MaxReads == 2
MaxToggles == 4
MaxRecv == 2
MaxTasks == MaxToggles \div 2
MaxText == 4
MaxCloses == 2

(***************************************************************************)
(* Program constants                                                       *)
(***************************************************************************)
RATE_TARGET == 16000
CHANNELS_TARGET == 1

None == "None"

Get(d, k, default) == IF k \in DOMAIN d THEN d[k] ELSE default

RECURSIVE Join(_)
Join(list) == IF list = <<>> THEN <<>> ELSE Head(list) \o Join(Tail(list))

b64encode(bytes) == [b64 |-> bytes]

(***************************************************************************)
(* AudioDeviceManager                                                      *)
(***************************************************************************)
\* lines 66-77: the fields select_device sets for a device of native rate
\* and channels, the probe of the target format (check_device_support)
\* succeeding or failing.
select_device(rate, channels, supported) ==
    IF supported
    THEN [input_rate |-> RATE_TARGET, input_channels |-> CHANNELS_TARGET,
          resample_required |-> FALSE]
    ELSE [input_rate |-> rate, input_channels |-> channels,
          resample_required |-> TRUE]

\* lines 39-44 and 96-106: the manager after select_device and a successful
\* open_stream.
Opened(sel) ==
    [input_rate |-> sel.input_rate, input_channels |-> sel.input_channels,
     resample_required |-> sel.resample_required,
     stream |-> "open", p |-> "live"]

\* The managers a successful start leaves (line 156).
DeviceProfiles ==
    { Opened(select_device(44100, 2, TRUE)),
      Opened(select_device(44100, 2, FALSE)) }

\* lines 43 and 107-109: the manager when open_stream failed: self.stream is
\* still None.
FailedProfile ==
    [Opened(select_device(44100, 2, FALSE)) EXCEPT !.stream = None]

\* line 139: Stream.stop_stream() stops a running stream and returns at once
\* on a stream that is not running.
stop_stream(stream) == IF stream = "open" THEN "stopped" ELSE stream

\* line 140: Stream.close() releases the stream; on a closed one it has
\* nothing left to release.
stream_close(stream) == "closed"

\* line 141: PyAudio.terminate()
terminate(p) == "terminated"

close_NoGuard(mgr) ==
    IF mgr.stream = None
    THEN [mgr |-> mgr, raised |-> TRUE]
    ELSE [mgr |-> [mgr EXCEPT !.stream = stream_close(stop_stream(@)),
                              !.p = terminate(@)],
          raised |-> FALSE]

\* lines 137-142: close(), and whether it raised.
close(mgr) ==
    [mgr |-> [mgr EXCEPT !.stream = IF @ # None
                                    THEN stream_close(stop_stream(@))
                                    ELSE @,
                         !.p = terminate(@)],
     raised |-> FALSE]

resample_chunk_NoDownmix(mgr, c, librosa_ok) ==
    IF mgr.input_rate # RATE_TARGET
    THEN IF librosa_ok THEN [c EXCEPT !.rate = RATE_TARGET] ELSE c
    ELSE c

\* One chunk through resample_audio; librosa_ok tells whether librosa.resample
\* returns or raises.
resample_chunk(mgr, c, librosa_ok) ==
    LET mono == IF mgr.input_channels > 1
                THEN [c EXCEPT !.channels = 1] ELSE c
    IN  IF mgr.input_rate # RATE_TARGET
        THEN IF librosa_ok THEN [mono EXCEPT !.rate = RATE_TARGET] ELSE mono
        ELSE mono

resample_audio(mgr, data, librosa_ok) ==
    IF ~mgr.resample_required THEN data
    ELSE [i \in 1..Len(data) |-> resample_chunk(mgr, data[i], librosa_ok)]

\* stream.read on the stream opened by open_stream with the resolved format.
stream_read(mgr, n) ==
    << [id |-> n, rate |-> mgr.input_rate, channels |-> mgr.input_channels] >>

\* librosa can only raise where it is called.
LibrosaOutcomes(mgr) ==
    IF mgr.resample_required /\ mgr.input_rate # RATE_TARGET
    THEN {TRUE, FALSE} ELSE {TRUE}

(***************************************************************************)
(* Credentials                                                             *)
(***************************************************************************)
CredentialSets ==
    { [appid |-> "app", apikey |-> "key", apisecret |-> "secret"],
      [appid |-> None,  apikey |-> "key", apisecret |-> "secret"],
      [appid |-> "app", apikey |-> "key", apisecret |-> ""] }

Truthy(v) == v # None /\ v # ""

create_ws_param_ok_IdOnly(c) == Truthy(c.appid)

\* all([XFYUN_APPID, XFYUN_APIKEY, XFYUN_APISECRET])
create_ws_param_ok(c) == Truthy(c.appid) /\ Truthy(c.apikey) /\ Truthy(c.apisecret)

(***************************************************************************)
(* Recognition threads                                                     *)
(***************************************************************************)
TaskIds == 1..MaxTasks

NoTask ==
    [pc |-> "unborn", audio_data |-> <<>>, nconn |-> 0, ws |-> "none",
     sent |-> <<>>, received |-> <<>>, final_result |-> <<>>,
     dispatched |-> <<>>, published |-> <<>>, notes |-> <<>>]

NoSession == [read |-> <<>>, deliv |-> <<>>]

NoCall == [fn |-> "none"]

Spawned == {t \in TaskIds : tasks[t].pc # "unborn"}

\* The state in which main() enters rclpy.spin (line 353) with manager mgr:
\* the threads were started (lines 176-180), or the stream could not be
\* opened and only the timer of line 158 was registered.
Start(mgr, c) ==
    /\ creds \in CredentialSets
    /\ audio_mgr = mgr
    /\ stop_event = FALSE
    /\ destroy_timer = (audio_mgr.stream = None)
    /\ listener = IF audio_mgr.stream = None THEN "unborn" ELSE "running"
    /\ is_recording = FALSE
    /\ audio_buffer = <<>>
    /\ recording_lock = "free"
    /\ cap_pc = IF audio_mgr.stream = None THEN "unborn" ELSE "while"
    /\ destroy_pc = "idle"
    /\ call = c
    /\ raw_data = <<>>
    /\ nreads = 0
    /\ key_pc = "idle"
    /\ tasks = [t \in TaskIds |-> NoTask]
    /\ nspace = 0
    /\ ntoggles = 0
    /\ session = NoSession
    /\ closed = <<>>

\* The node after a successful start of the audio device.
Init == \E mgr \in DeviceProfiles : Start(mgr, NoCall)

\* The node on a device that supports the target format, and the node whose
\* stream could not be opened.
InitLifecycle ==
    \E mgr \in {Opened(select_device(44100, 2, TRUE)), FailedProfile} :
        Start(mgr, NoCall)

(***************************************************************************)
(* capture_audio_loop                                                      *)
(***************************************************************************)
CapWhile_IgnoresStop ==
    /\ cap_pc = "while"
    /\ nreads < MaxReads /\ cap_pc' = "reading"
    /\ UNCHANGED <<creds, destroy_pc, call, audio_mgr, stop_event,
                   destroy_timer, listener, is_recording, audio_buffer,
                   recording_lock, raw_data, nreads, key_pc, tasks, nspace,
                   ntoggles, session, closed>>

\* line 221: the loop test; the read of line 222 is issued when it passes.
CapWhile ==
    /\ cap_pc = "while"
    /\ IF stop_event THEN cap_pc' = "exited"
       ELSE nreads < MaxReads /\ cap_pc' = "reading"
    /\ UNCHANGED <<creds, destroy_pc, call, audio_mgr, stop_event, destroy_timer, listener,
                   is_recording, audio_buffer, recording_lock, raw_data,
                   nreads, key_pc, tasks, nspace, ntoggles, session, closed>>

\* line 222: the blocking read returns the next frame of the device.
CapRead ==
    /\ cap_pc = "reading"
    /\ nreads' = nreads + 1
    /\ raw_data' = stream_read(audio_mgr, nreads + 1)
    /\ session' = IF is_recording
                  THEN [session EXCEPT !.read = Append(@, nreads + 1)]
                  ELSE session
    /\ cap_pc' = "acquire"
    /\ UNCHANGED <<creds, destroy_pc, call, audio_mgr, stop_event, destroy_timer, listener,
                   is_recording, audio_buffer, recording_lock, key_pc, tasks,
                   nspace, ntoggles, closed>>

\* line 222: the read raises (a device error other than the input overflow
\* that exception_on_overflow=False silences, or the stream was closed);
\* nothing in the loop catches it and the thread ends.
CapReadError ==
    /\ cap_pc = "reading"
    /\ cap_pc' = "crashed"
    /\ UNCHANGED <<creds, destroy_pc, call, audio_mgr, stop_event, destroy_timer,
                   listener, is_recording, audio_buffer, recording_lock,
                   raw_data, nreads, key_pc, tasks, nspace, ntoggles, session,
                   closed>>

CanAcquire_Always(lock) == TRUE

\* threading.Lock: acquire succeeds only on a free lock.
CanAcquire(lock) == lock = "free"

\* line 223: with self.recording_lock (entry)
CapAcquire ==
    /\ cap_pc = "acquire"
    /\ CanAcquire(recording_lock)
    /\ recording_lock' = "capture"
    /\ cap_pc' = "locked"
    /\ UNCHANGED <<creds, destroy_pc, call, audio_mgr, stop_event, destroy_timer, listener,
                   is_recording, audio_buffer, raw_data, nreads, key_pc,
                   tasks, nspace, ntoggles, session, closed>>

AppendFrame_Always(buffer, recording, mgr, data, librosa_ok) ==
    Append(buffer, resample_audio(mgr, data, librosa_ok))

AppendFrame_Overwrite(buffer, recording, mgr, data, librosa_ok) ==
    IF recording THEN <<resample_audio(mgr, data, librosa_ok)>> ELSE buffer

\* lines 224-226: the buffer after the check of the flag and the append
AppendFrame(buffer, recording, mgr, data, librosa_ok) ==
    IF recording
    THEN Append(buffer, resample_audio(mgr, data, librosa_ok))
    ELSE buffer

\* lines 224-228: check the flag, resample and append, leave the with block,
\* sleep.
CapBody ==
    /\ cap_pc = "locked"
    /\ \E librosa_ok \in LibrosaOutcomes(audio_mgr) :
          audio_buffer' = AppendFrame(audio_buffer, is_recording, audio_mgr,
                                      raw_data, librosa_ok)
    /\ session' = IF is_recording
                  THEN [session EXCEPT !.deliv = Append(@, raw_data[1].id)]
                  ELSE session
    /\ recording_lock' = "free"
    /\ cap_pc' = "while"
    /\ UNCHANGED <<creds, destroy_pc, call, audio_mgr, stop_event, destroy_timer, listener,
                   is_recording, raw_data, nreads, key_pc, tasks, nspace, ntoggles,
                   closed>>

(***************************************************************************)
(* on_key_press                                                            *)
(***************************************************************************)
\* lines 192-197: the quit key
KeyQuit ==
    /\ listener = "running"
    /\ key_pc = "idle"
    /\ stop_event' = TRUE
    /\ destroy_timer' = TRUE
    /\ listener' = "stopped"
    /\ UNCHANGED <<creds, destroy_pc, call, audio_mgr, is_recording, audio_buffer,
                   recording_lock, cap_pc, raw_data, nreads, key_pc, tasks,
                   nspace, ntoggles, session, closed>>

\* line 200: the listener delivers a space key; the callback reaches the
\* with statement.
KeySpace ==
    /\ listener = "running"
    /\ key_pc = "idle"
    /\ nspace < MaxToggles
    /\ nspace' = nspace + 1
    /\ key_pc' = "acquire"
    /\ UNCHANGED <<creds, destroy_pc, call, audio_mgr, stop_event, destroy_timer, listener,
                   is_recording, audio_buffer, recording_lock, cap_pc,
                   raw_data, nreads, tasks, ntoggles, session, closed>>

\* line 201: with self.recording_lock (entry)
KeyAcquire ==
    /\ key_pc = "acquire"
    /\ CanAcquire(recording_lock)
    /\ recording_lock' = "key"
    /\ key_pc' = "locked"
    /\ UNCHANGED <<creds, destroy_pc, call, audio_mgr, stop_event, destroy_timer, listener,
                   is_recording, audio_buffer, cap_pc, raw_data, nreads,
                   tasks, nspace, ntoggles, session, closed>>

StartRecording_NoClear ==
    /\ audio_buffer' = audio_buffer
    /\ session' = NoSession
    /\ UNCHANGED <<tasks, closed>>

\* lines 203-206: recording starts
StartRecording ==
    /\ audio_buffer' = <<>>
    /\ session' = NoSession
    /\ UNCHANGED <<tasks, closed>>

\* lines 212-214: the copy of the buffer goes to a new thread
SpawnTask ==
    LET t == Cardinality(Spawned) + 1
        recorded_data == Join(audio_buffer)
    IN  /\ tasks' = [tasks EXCEPT ![t] =
                       [NoTask EXCEPT !.pc = "start",
                                      !.audio_data = recorded_data]]
        /\ closed' = Append(closed,
                       [tog |-> ntoggles', buf |-> audio_buffer,
                        note |-> "spawned", task |-> t])

\* line 216: the warning that the recording is empty
WarnEmpty ==
    /\ tasks' = tasks
    /\ closed' = Append(closed,
                   [tog |-> ntoggles', buf |-> audio_buffer,
                    note |-> "empty_warning", task |-> 0])

StopRecording_SpawnAlways ==
    /\ audio_buffer' = audio_buffer
    /\ session' = NoSession
    /\ SpawnTask

\* lines 207-216: recording stops
StopRecording ==
    /\ audio_buffer' = audio_buffer
    /\ session' = NoSession
    /\ IF audio_buffer # <<>> THEN SpawnTask ELSE WarnEmpty

\* lines 202-217: flip the flag, start or stop, leave the with block.
KeyBody ==
    /\ key_pc = "locked"
    /\ is_recording' = ~is_recording
    /\ ntoggles' = ntoggles + 1
    /\ IF is_recording' THEN StartRecording ELSE StopRecording
    /\ recording_lock' = "free"
    /\ key_pc' = "idle"
    /\ UNCHANGED <<creds, destroy_pc, call, audio_mgr, stop_event, destroy_timer, listener,
                   cap_pc, raw_data, nreads, nspace>>

(***************************************************************************)
(* destroy_node                                                            *)
(***************************************************************************)
DestroyUnchanged ==
    UNCHANGED <<creds, call, destroy_timer, is_recording, audio_buffer,
                recording_lock, cap_pc, raw_data, nreads, key_pc, tasks,
                nspace, ntoggles, session, closed>>

\* lines 158, 196 and 329-331: the executor runs the callback of the timer.
DestroyFromTimer ==
    /\ destroy_pc = "idle"
    /\ destroy_timer
    /\ stop_event' = TRUE
    /\ destroy_pc' = "listener"
    /\ UNCHANGED <<audio_mgr, listener>>
    /\ DestroyUnchanged

\* lines 354-361 and 329-331: spin ended with an interrupt or an exception
\* and the stop event is not set; main() calls destroy_node.
DestroyFromMain ==
    /\ destroy_pc = "idle"
    /\ ~stop_event
    /\ stop_event' = TRUE
    /\ destroy_pc' = "listener"
    /\ UNCHANGED <<audio_mgr, listener>>
    /\ DestroyUnchanged

\* lines 333-334
DestroyStopListener ==
    /\ destroy_pc = "listener"
    /\ listener' = IF listener = "running" THEN "stopped" ELSE listener
    /\ destroy_pc' = "join"
    /\ UNCHANGED <<audio_mgr, stop_event>>
    /\ DestroyUnchanged

CaptureAlive == cap_pc \in {"while", "reading", "acquire", "locked"}

\* lines 336-337: join(timeout=1.0) returns when the capture thread has
\* ended, or after the timeout while it is still alive.
DestroyJoin ==
    /\ destroy_pc = "join"
    /\ destroy_pc' = IF CaptureAlive THEN "close_after_timeout" ELSE "close"
    /\ UNCHANGED <<audio_mgr, stop_event, listener>>
    /\ DestroyUnchanged

\* lines 339-345
DestroyClose ==
    /\ destroy_pc \in {"close", "close_after_timeout"}
    /\ audio_mgr' = close(audio_mgr).mgr
    /\ destroy_pc' = IF close(audio_mgr).raised THEN "raised" ELSE "done"
    /\ UNCHANGED <<stop_event, listener>>
    /\ DestroyUnchanged

(***************************************************************************)
(* handle_final_result                                                     *)
(***************************************************************************)
commands_LongestFirst ==
    << [cmd |-> <<"yuan", "di", "zuo", "zhuan">>,  twist |-> <<0, 10>>],
       [cmd |-> <<"yuan", "di", "you", "zhuan">>,  twist |-> <<0, -10>>],
       [cmd |-> <<"qian", "jin">>,                 twist |-> <<2, 0>>],
       [cmd |-> <<"xiang", "qian">>,               twist |-> <<2, 0>>],
       [cmd |-> <<"hou", "tui">>,                  twist |-> <<-2, 0>>],
       [cmd |-> <<"zuo", "zhuan">>,                twist |-> <<0, 5>>],
       [cmd |-> <<"you", "zhuan">>,                twist |-> <<0, -5>>],
       [cmd |-> <<"ting", "zhi">>,                 twist |-> <<0, 0>>],
       [cmd |-> <<"jia", "su">>,                   twist |-> <<4, 0>>],
       [cmd |-> <<"jian", "su">>,                  twist |-> <<1, 0>>],
       [cmd |-> <<"ting">>,                        twist |-> <<0, 0>>] >>

\* self.commands (lines 168-173), in declaration order.
commands ==
    << [cmd |-> <<"qian", "jin">>,                 twist |-> <<2, 0>>],
       [cmd |-> <<"xiang", "qian">>,               twist |-> <<2, 0>>],
       [cmd |-> <<"hou", "tui">>,                  twist |-> <<-2, 0>>],
       [cmd |-> <<"zuo", "zhuan">>,                twist |-> <<0, 5>>],
       [cmd |-> <<"you", "zhuan">>,                twist |-> <<0, -5>>],
       [cmd |-> <<"ting">>,                        twist |-> <<0, 0>>],
       [cmd |-> <<"ting", "zhi">>,                 twist |-> <<0, 0>>],
       [cmd |-> <<"yuan", "di", "zuo", "zhuan">>,  twist |-> <<0, 10>>],
       [cmd |-> <<"yuan", "di", "you", "zhuan">>,  twist |-> <<0, -10>>],
       [cmd |-> <<"jia", "su">>,                   twist |-> <<4, 0>>],
       [cmd |-> <<"jian", "su">>,                  twist |-> <<1, 0>>] >>

\* cmd in text
Contains(text, cmd) ==
    \E i \in 0..(Len(text) - Len(cmd)) :
        \A j \in 1..Len(cmd) : text[i + j] = cmd[j]

Matches(text) == {i \in 1..Len(commands) : Contains(text, commands[i].cmd)}

FirstMatch_LastDeclared(text) ==
    CHOOSE i \in Matches(text) : \A j \in Matches(text) : i >= j

\* line 286: the first entry, in the order of the dict, that matches
FirstMatch(text) == CHOOSE i \in Matches(text) : \A j \in Matches(text) : i <= j

handle_final_result_PublishesTwice(text) ==
    IF text = <<>> THEN [note |-> "empty_result", publish |-> <<>>]
    ELSE IF Matches(text) # {}
         THEN [note |-> "executed", cmd |-> commands[FirstMatch(text)].cmd,
               publish |-> <<commands[FirstMatch(text)].twist,
                             commands[FirstMatch(text)].twist>>]
         ELSE [note |-> "no_match", publish |-> <<>>]

\* lines 276-297: the notification logged and the commands published for text.
handle_final_result(text) ==
    IF text = <<>> THEN [note |-> "empty_result", publish |-> <<>>]
    ELSE IF Matches(text) # {}
         THEN [note |-> "executed", cmd |-> commands[FirstMatch(text)].cmd,
               publish |-> <<commands[FirstMatch(text)].twist>>]
         ELSE [note |-> "no_match", publish |-> <<>>]

(***************************************************************************)
(* process_audio                                                           *)
(***************************************************************************)
\* Messages the service may deliver (the response JSON of the protocol).
WsQian == << [cw |-> << [w |-> <<"qian">>] >>] >>
WsJin  == << [cw |-> << [w |-> <<"jin">>], [sc |-> 0] >>], [cw |-> <<>>] >>

Responses ==
    { [code |-> 0, data |-> [status |-> 1, result |-> [ws |-> WsQian]]],
      [code |-> 0, data |-> [status |-> 2, result |-> [ws |-> WsJin]]],
      [code |-> 0, data |-> [status |-> 2]],
      [code |-> 10105, message |-> "illegal access"],
      [code |-> 10165, message |-> "invalid handle",
       data |-> [status |-> 2, result |-> [ws |-> WsJin]]] }

\* line 264: [w.get("w", '') for item in result.get("ws", [])
\*                           for w in item.get("cw", [])]
RECURSIVE cw_words(_)
cw_words(cw) ==
    IF cw = <<>> THEN <<>>
    ELSE <<Get(Head(cw), "w", <<>>)>> \o cw_words(Tail(cw))

RECURSIVE ws_words(_)
ws_words(ws) ==
    IF ws = <<>> THEN <<>>
    ELSE cw_words(Get(Head(ws), "cw", <<>>)) \o ws_words(Tail(ws))

msg_words(msg) ==
    ws_words(Get(Get(Get(msg, "data", <<>>), "result", <<>>), "ws", <<>>))

\* line 258: msg.get("code") != 0
msg_is_error(msg) == ~("code" \in DOMAIN msg /\ msg.code = 0)

\* line 267: data.get("status") == 2
msg_is_final(msg) ==
    LET data == Get(msg, "data", <<>>)
    IN  "status" \in DOMAIN data /\ data.status = 2

start_frame(c) ==
    [common |-> [app_id |-> c.appid],
     business |-> [domain |-> "iat", language |-> "zh_cn", accent |-> "mandarin"],
     data |-> [status |-> 0]]

data_frame(audio_data) ==
    [data |-> [status |-> 1, audio |-> b64encode(audio_data)]]

end_frame == [data |-> [status |-> 2]]

TaskUnchanged ==
    UNCHANGED <<creds, destroy_pc, call, audio_mgr, stop_event, destroy_timer, listener,
                is_recording, audio_buffer, recording_lock, cap_pc, raw_data,
                nreads, key_pc, nspace, ntoggles, session, closed>>

\* lines 232-233 and 300-304: without complete credentials the thread logs
\* the error and returns.
TaskStart(t) ==
    /\ tasks[t].pc = "start"
    /\ IF create_ws_param_ok(creds)
       THEN tasks' = [tasks EXCEPT ![t].pc = "connect"]
       ELSE tasks' = [tasks EXCEPT ![t].pc = "done",
                                   ![t].notes = Append(@, "auth_error")]
    /\ TaskUnchanged

TaskConnect_HoldsLock(t) ==
    /\ tasks[t].pc = "connect"
    /\ CanAcquire(recording_lock)
    /\ recording_lock' = "task"
    /\ tasks' = [tasks EXCEPT ![t].pc = "send_start",
                              ![t].nconn = @ + 1,
                              ![t].ws = "open"]
    /\ UNCHANGED <<creds, destroy_pc, call, audio_mgr, stop_event, destroy_timer, listener,
                   is_recording, audio_buffer, cap_pc, raw_data, nreads,
                   key_pc, nspace, ntoggles, session, closed>>

\* line 237: websocket.create_connection returns
TaskConnect(t) ==
    /\ tasks[t].pc = "connect"
    /\ tasks' = [tasks EXCEPT ![t].pc = "send_start",
                              ![t].nconn = @ + 1,
                              ![t].ws = "open"]
    /\ TaskUnchanged

\* lines 240-243
TaskSendStart(t) ==
    /\ tasks[t].pc = "send_start"
    /\ tasks' = [tasks EXCEPT ![t].pc = "send_data",
                              ![t].sent = Append(@, start_frame(creds))]
    /\ TaskUnchanged

TaskSendData_Aliased(t) ==
    /\ tasks[t].pc = "send_data"
    /\ tasks' = [tasks EXCEPT ![t].pc = "send_end",
                              ![t].sent = Append(@, data_frame(Join(audio_buffer)))]
    /\ TaskUnchanged

\* lines 246-248
TaskSendData(t) ==
    /\ tasks[t].pc = "send_data"
    /\ tasks' = [tasks EXCEPT ![t].pc = "send_end",
                              ![t].sent = Append(@, data_frame(tasks[t].audio_data))]
    /\ TaskUnchanged

\* line 251
TaskSendEnd(t) ==
    /\ tasks[t].pc = "send_end"
    /\ tasks' = [tasks EXCEPT ![t].pc = "recv",
                              ![t].sent = Append(@, end_frame)]
    /\ TaskUnchanged

recv_next_pc_NoFinalBreak(msg) ==
    IF msg_is_error(msg) THEN "close" ELSE "recv"

\* lines 258-260 and 267-268: the two breaks of the receive loop
recv_next_pc(msg) ==
    IF msg_is_error(msg) \/ msg_is_final(msg) THEN "close" ELSE "recv"

\* lines 256-268: one turn of the receive loop, the message being well formed
TaskRecv(t) ==
    /\ tasks[t].pc = "recv"
    /\ Len(tasks[t].received) < MaxRecv
    /\ \E msg \in Responses :
          tasks' = [tasks EXCEPT
              ![t].received = Append(@, msg),
              ![t].notes =
                  IF msg_is_error(msg)
                  THEN Append(@, <<"recognition_error",
                                   Get(msg, "message", "unknown")>>)
                  ELSE @,
              ![t].final_result =
                  IF msg_is_error(msg) THEN @ ELSE @ \o Join(msg_words(msg)),
              ![t].pc = recv_next_pc(msg)]
    /\ TaskUnchanged

TaskFinish_ResetsFlag(t) ==
    /\ tasks[t].pc = "close"
    /\ LET r == handle_final_result(tasks[t].final_result)
       IN  tasks' = [tasks EXCEPT
               ![t].ws = "closed",
               ![t].dispatched = Append(@, tasks[t].final_result),
               ![t].notes = Append(@, r.note),
               ![t].published = @ \o r.publish,
               ![t].pc = "done"]
    /\ is_recording' = FALSE
    /\ UNCHANGED <<creds, destroy_pc, call, audio_mgr, stop_event, destroy_timer, listener,
                   audio_buffer, recording_lock, cap_pc, raw_data, nreads,
                   key_pc, nspace, ntoggles, session, closed>>

\* lines 270-271: ws.close() and handle_final_result(final_result)
TaskFinish(t) ==
    /\ tasks[t].pc = "close"
    /\ LET r == handle_final_result(tasks[t].final_result)
       IN  tasks' = [tasks EXCEPT
               ![t].ws = "closed",
               ![t].dispatched = Append(@, tasks[t].final_result),
               ![t].notes = Append(@, r.note),
               ![t].published = @ \o r.publish,
               ![t].pc = "done"]
    /\ TaskUnchanged

TaskNetworkError_Silent(t) ==
    /\ tasks[t].pc \in {"connect", "send_start", "send_data", "send_end", "recv"}
    /\ tasks' = [tasks EXCEPT ![t].pc = "done"]
    /\ TaskUnchanged

\* lines 273-274: the call the thread is at raises (connection refused or
\* dropped, malformed message); the error is logged and the thread ends.
TaskNetworkError(t) ==
    /\ tasks[t].pc \in {"connect", "send_start", "send_data", "send_end", "recv"}
    /\ tasks' = [tasks EXCEPT ![t].pc = "done",
                              ![t].notes = Append(@, "network_error")]
    /\ TaskUnchanged

Next ==
    \/ CapWhile
    \/ CapRead
    \/ CapReadError
    \/ CapAcquire
    \/ CapBody
    \/ KeyQuit
    \/ KeySpace
    \/ KeyAcquire
    \/ KeyBody
    \/ \E t \in TaskIds : TaskStart(t)
    \/ \E t \in TaskIds : TaskConnect(t)
    \/ \E t \in TaskIds : TaskSendStart(t)
    \/ \E t \in TaskIds : TaskSendData(t)
    \/ \E t \in TaskIds : TaskSendEnd(t)
    \/ \E t \in TaskIds : TaskRecv(t)
    \/ \E t \in TaskIds : TaskFinish(t)
    \/ \E t \in TaskIds : TaskNetworkError(t)

\* The node as long as destroy_node has not been called.
Spec == Init /\ [][Next]_vars

\* A step of a recognition thread.
TaskStep ==
    \E t \in TaskIds :
        \/ TaskStart(t)
        \/ TaskConnect(t)
        \/ TaskSendStart(t)
        \/ TaskSendData(t)
        \/ TaskSendEnd(t)
        \/ TaskRecv(t)
        \/ TaskFinish(t)
        \/ TaskNetworkError(t)

\* The node on a device that supports the target format.
InitFair == Start(Opened(select_device(44100, 2, TRUE)), NoCall)

\* The node under a scheduler that lets a started thread run: a recognition
\* thread that can take a step takes one, each of its blocking calls
\* returning or raising.
FairSpec == InitFair /\ [][Next]_vars /\ WF_vars(TaskStep)

Destroy ==
    \/ DestroyFromTimer
    \/ DestroyFromMain
    \/ DestroyStopListener
    \/ DestroyJoin
    \/ DestroyClose

NextLifecycle == Next \/ Destroy

\* The node from its start to the end of destroy_node.
SpecLifecycle == InitLifecycle /\ [][NextLifecycle]_vars

(***************************************************************************)
(* Direct calls of handle_final_result, of the capture step and of close   *)
(***************************************************************************)
Alphabet == {"qing", "ting", "zhi", "yuan", "di", "zuo", "zhuan", "you"}

Transcripts == UNION {[1..n -> Alphabet] : n \in 0..MaxText}

NativeRates == {8000, 16000, 44100, 48000}

NativeChannels == {1, 2}

\* The managers select_device and open_stream can leave, over the devices.
Managers ==
    { Opened(select_device(r, c, supported)) :
        r \in NativeRates, c \in NativeChannels, supported \in BOOLEAN }

Calls ==
    { [fn |-> "handle_final_result", text |-> x, returned |-> FALSE] :
        x \in Transcripts }
    \cup { [fn |-> "capture_frame", mgr |-> m, returned |-> FALSE] :
             m \in Managers }
    \cup { [fn |-> "close", mgr |-> m, before |-> m, ncalls |-> 0,
            raised |-> FALSE] : m \in DeviceProfiles \cup {FailedProfile} }

InitCalls ==
    \E c \in Calls : Start(Opened(select_device(44100, 2, FALSE)), c)

CallUnchanged ==
    UNCHANGED <<creds, destroy_pc, audio_mgr, stop_event, destroy_timer,
                listener, is_recording, audio_buffer, recording_lock, cap_pc,
                raw_data, nreads, key_pc, tasks, nspace, ntoggles, session,
                closed>>

\* lines 276-297
CallHandleFinalResult ==
    /\ call.fn = "handle_final_result"
    /\ ~call.returned
    /\ call' = [fn |-> call.fn, text |-> call.text, returned |-> TRUE,
                out |-> handle_final_result(call.text)]
    /\ CallUnchanged

\* lines 222 and 224-226 while recording, on an empty buffer
CallCaptureFrame ==
    /\ call.fn = "capture_frame"
    /\ ~call.returned
    /\ \E librosa_ok \in LibrosaOutcomes(call.mgr) :
          LET data == stream_read(call.mgr, 1)
          IN  call' = [fn |-> call.fn, mgr |-> call.mgr, returned |-> TRUE,
                       data |-> data, librosa_ok |-> librosa_ok,
                       out |-> resample_audio(call.mgr, data, librosa_ok),
                       buffer |-> AppendFrame(<<>>, TRUE, call.mgr, data,
                                              librosa_ok)]
    /\ CallUnchanged

\* lines 137-142
CallClose ==
    /\ call.fn = "close"
    /\ call.ncalls < MaxCloses
    /\ call' = [call EXCEPT !.mgr = close(@).mgr,
                            !.before = call.mgr,
                            !.raised = @ \/ close(call.mgr).raised,
                            !.ncalls = @ + 1]
    /\ CallUnchanged

NextCalls ==
    \/ CallHandleFinalResult
    \/ CallCaptureFrame
    \/ CallClose

\* One method called on its own, on each of its inputs.
SpecCalls == InitCalls /\ [][NextCalls]_vars

(***************************************************************************)
(* Properties                                                              *)
(***************************************************************************)
InCritical(pc) == pc = "locked"

IdsOf(bytes) == [i \in 1..Len(bytes) |-> bytes[i].id]

Handoffs == {k \in 1..Len(closed) : closed[k].note = "spawned"}

\* The audio handed over by a step that closes a recording.
HandedOver == IdsOf(tasks'[closed'[Len(closed')].task].audio_data)

ClosesWithHandoff ==
    /\ is_recording /\ ~is_recording'
    /\ closed'[Len(closed')].note = "spawned"

\* C1 as stated: the audio handed to recognition at a Recording->Idle
\* transition is exactly the frames read from the device between the
\* preceding Idle->Recording transition and that transition.
C1_AudioIsFramesReadInSession ==
    [][ClosesWithHandoff => HandedOver = session.read]_vars

\* C1 amended: the audio handed to recognition at a Recording->Idle
\* transition is exactly the frames, in order, whose check-and-append step
\* ran between the preceding Idle->Recording transition and that transition.
C1_AudioIsFramesDeliveredInSession ==
    [][ClosesWithHandoff => HandedOver = session.deliv]_vars

\* The listener is closing a recording of two frames, the first of them read
\* before the recording began.
C1_Witness ==
    /\ is_recording /\ InCritical(key_pc)
    /\ Len(audio_buffer) = 2
    /\ session.read = <<audio_buffer[2][1].id>>

\* C2: while the state stays Idle the buffer does not change, whatever step
\* is taken.
C2_ClosedBufferFrozen ==
    [][(~is_recording /\ ~is_recording') => audio_buffer' = audio_buffer]_vars

\* The capture loop ran its locked step on a closed, non-empty session.
C2_Witness ==
    /\ ~is_recording
    /\ audio_buffer # <<>>
    /\ cap_pc = "while"
    /\ raw_data[1].id > audio_buffer[Len(audio_buffer)][1].id

\* C3: the flag and the buffer change only in a step of the holder of the
\* lock, a thread inside its with block holds the lock, and the capture
\* thread and the listener are never inside their with blocks together.
C3_LockDiscipline ==
    /\ [](/\ InCritical(cap_pc) => recording_lock = "capture"
          /\ InCritical(key_pc) => recording_lock = "key"
          /\ ~(InCritical(cap_pc) /\ InCritical(key_pc)))
    /\ [][(is_recording' # is_recording \/ audio_buffer' # audio_buffer)
            => \/ InCritical(cap_pc) /\ recording_lock = "capture"
                  /\ is_recording' = is_recording
               \/ InCritical(key_pc) /\ recording_lock = "key"]_vars

\* The listener waits for the lock while the capture thread is inside its
\* with block.
C3_Witness == InCritical(cap_pc) /\ key_pc = "acquire" /\ is_recording

\* C4: the state is Recording exactly when the number of handled toggle
\* events is odd, and only the toggle handler changes it.
C4_StrictAlternation ==
    /\ [](key_pc = "idle" => (is_recording <=> nspace % 2 = 1))
    /\ [](ntoggles = 0 => ~is_recording)
    /\ [][is_recording' # is_recording
            => InCritical(key_pc) /\ key_pc' = "idle"
               /\ ntoggles' = ntoggles + 1]_vars

\* Three toggle events handled, frames captured and a recognition thread
\* finished meanwhile.
C4_Witness ==
    /\ key_pc = "idle" /\ nspace = 3 /\ is_recording
    /\ nreads > 0
    /\ \E t \in TaskIds : tasks[t].pc = "done"

EmptyWarnings == {k \in 1..Len(closed) : closed[k].note = "empty_warning"}

\* C5: a Recording->Idle transition with a non-empty buffer starts exactly one
\* recognition thread and warns of nothing; with an empty buffer it warns
\* that the recording is empty and starts no thread.  As long as no frame was
\* appended every closed session is an empty one.
C5_StopOutcome ==
    /\ [][(is_recording /\ ~is_recording') =>
            IF audio_buffer # <<>>
            THEN /\ Cardinality(Spawned') = Cardinality(Spawned) + 1
                 /\ \A t \in Spawned : tasks'[t] = tasks[t]
                 /\ Cardinality(EmptyWarnings') = Cardinality(EmptyWarnings)
                 /\ Len(closed') = Len(closed) + 1
            ELSE /\ tasks' = tasks
                 /\ Cardinality(EmptyWarnings')
                        = Cardinality(EmptyWarnings) + 1
                 /\ Len(closed') = Len(closed) + 1]_vars
    /\ []((session.deliv = <<>> /\ \A k \in 1..Len(closed) : closed[k].buf = <<>>)
            => /\ Spawned = {}
               /\ Handoffs = {}
               /\ (~is_recording => 2 * Len(closed) = ntoggles))

\* Both outcomes have occurred: a session handed to a thread and an empty one.
C5_Witness == Handoffs # {} /\ EmptyWarnings # {}

\* C6: starting a recording empties the buffer, and every frame in the buffer
\* of a running session was appended during that session.
C6_BufferClearedAtStart ==
    /\ [][(~is_recording /\ is_recording') => audio_buffer' = <<>>]_vars
    /\ [](is_recording =>
            IdsOf(Join(audio_buffer)) = session.deliv)

\* A second session holding a frame after a first, non-empty one.
C6_Witness ==
    /\ is_recording /\ ntoggles = 3
    /\ audio_buffer # <<>>
    /\ closed[1].buf # <<>>

DataFrames(t) ==
    SelectSeq(tasks[t].sent,
              LAMBDA f : "audio" \in DOMAIN f.data)

\* C7: the audio a recognition thread holds and sends is the buffer as it was
\* at the thread's own Recording->Idle transition.
C7_SnapshotImmutable ==
    \A k \in Handoffs :
        LET t == closed[k].task
        IN  /\ tasks[t].audio_data = Join(closed[k].buf)
            /\ \A i \in 1..Len(DataFrames(t)) :
                  DataFrames(t)[i].data.audio = b64encode(Join(closed[k].buf))

\* The first thread has sent its audio after a second thread with other audio
\* was started, and the buffer has changed since its hand-off.
C7_Witness ==
    /\ Len(closed) = 2
    /\ tasks[1].pc = "recv" /\ tasks[2].pc = "start"
    /\ tasks[2].audio_data # tasks[1].audio_data
    /\ audio_buffer # closed[1].buf

TaskStepped ==
    \E t \in TaskIds : tasks[t].pc # "unborn" /\ tasks'[t] # tasks[t]

\* C8: the lock is only ever held by the capture thread or the listener,
\* each inside its with block; a step of a recognition thread changes
\* neither the lock, the flag nor the buffer; and a free lock is never
\* refused to the listener or the capture thread, whatever the recognition
\* threads are doing.
C8_TasksNeverBlock ==
    /\ [](/\ recording_lock \in {"free", "capture", "key"}
          /\ recording_lock = "capture" => InCritical(cap_pc)
          /\ recording_lock = "key" => InCritical(key_pc))
    /\ [][TaskStepped =>
            UNCHANGED <<recording_lock, is_recording, audio_buffer>>]_vars
    /\ []((recording_lock = "free" /\ key_pc = "acquire") => ENABLED KeyAcquire)
    /\ []((recording_lock = "free" /\ cap_pc = "acquire") => ENABLED CapAcquire)

\* While the first thread waits for a response that does not come, a new
\* recording was started and a frame appended to it.
C8_Witness ==
    /\ tasks[1].pc = "recv" /\ Len(tasks[1].received) = MaxRecv
    /\ is_recording /\ ntoggles = 3
    /\ audio_buffer # <<>>

IsPrefix(p, q) == Len(p) <= Len(q) /\ \A i \in 1..Len(p) : p[i] = q[i]

Protocol(t) ==
    << start_frame(creds), data_frame(tasks[t].audio_data), end_frame >>

msg_is_terminal(msg) == msg_is_error(msg) \/ msg_is_final(msg)

\* What holds of a session at every moment: at most one connection, the
\* frames sent are the beginning of start, data, end, nothing is received
\* before the three are sent nor after a final or error response.
ProtocolOrder(t) ==
    /\ tasks[t].nconn <= 1
    /\ tasks[t].sent # <<>> => tasks[t].nconn = 1
    /\ IsPrefix(tasks[t].sent, Protocol(t))
    /\ tasks[t].received # <<>> => tasks[t].sent = Protocol(t)
    /\ \A i \in 1..(Len(tasks[t].received) - 1) :
          ~msg_is_terminal(tasks[t].received[i])

\* C9 as stated: every session with credentials opens exactly one connection
\* and sends exactly the three frames start, data, end before receiving.
C9_AlwaysThreeFrames ==
    \A t \in TaskIds :
        /\ ProtocolOrder(t)
        /\ (tasks[t].pc = "done" /\ create_ws_param_ok(creds))
              => tasks[t].nconn = 1 /\ tasks[t].sent = Protocol(t)

\* C9 amended: the order of the protocol holds of every session, and a
\* session that reaches its close without a network or protocol error has
\* opened exactly one connection, sent exactly the three frames and received
\* a final or error response last.
C9_ProtocolUnlessNetworkError ==
    \A t \in TaskIds :
        /\ ProtocolOrder(t)
        /\ (tasks[t].pc = "close" \/ tasks[t].dispatched # <<>>)
              => /\ tasks[t].nconn = 1
                 /\ tasks[t].sent = Protocol(t)
                 /\ tasks[t].received # <<>>
                 /\ msg_is_terminal(tasks[t].received[Len(tasks[t].received)])

\* A session completed after two responses, a partial and a final one.
C9_Witness ==
    \E t \in TaskIds :
        /\ tasks[t].pc = "done" /\ tasks[t].ws = "closed"
        /\ Len(tasks[t].received) = 2
        /\ msg_is_final(tasks[t].received[2])
        /\ ~msg_is_error(tasks[t].received[2])

RECURSIVE AllWords(_)
AllWords(msgs) ==
    IF msgs = <<>> THEN <<>>
    ELSE Join(msg_words(Head(msgs))) \o AllWords(Tail(msgs))

\* C10: the transcript passed to dispatch is the concatenation, in arrival
\* order, of every word text of every response received in the session.
C10_TranscriptIsAllWords ==
    \A t \in TaskIds :
        \A i \in 1..Len(tasks[t].dispatched) :
            tasks[t].dispatched[i] = AllWords(tasks[t].received)

HasError(t) ==
    \E i \in 1..Len(tasks[t].received) : msg_is_error(tasks[t].received[i])

\* C11: a session that received a response with a non-zero code receives
\* nothing after it, has reported the recognition error with the message of
\* the service as its only outcome, has opened one connection, and neither
\* dispatches a transcript nor publishes a motion command.
C11_ErrorAbortsSession ==
    \A t \in TaskIds :
        HasError(t) =>
            LET n == Len(tasks[t].received)
                msg == tasks[t].received[n]
            IN  /\ msg_is_error(msg)
                /\ \A i \in 1..(n - 1) : ~msg_is_error(tasks[t].received[i])
                /\ tasks[t].nconn = 1
                /\ Len(tasks[t].notes) = 1
                /\ tasks[t].notes[1]
                      = <<"recognition_error", Get(msg, "message", "unknown")>>
                /\ tasks[t].dispatched = <<>>
                /\ tasks[t].published = <<>>

CredentialMissing ==
    \E k \in {"appid", "apikey", "apisecret"} : creds[k] \in {None, ""}

\* C12: when a credential is missing or empty, a recognition attempt opens no
\* connection, sends and receives nothing, dispatches and publishes nothing,
\* and ends with the authentication error as its only notification; its
\* steps leave the flag, the buffer, the lock, the capture thread and the
\* listener as they are.
C12_MissingCredentialsAbortAttempt ==
    /\ [](CredentialMissing =>
            \A t \in TaskIds :
                /\ tasks[t].pc \in {"unborn", "start", "done"}
                /\ tasks[t].nconn = 0 /\ tasks[t].ws = "none"
                /\ tasks[t].sent = <<>> /\ tasks[t].received = <<>>
                /\ tasks[t].dispatched = <<>> /\ tasks[t].published = <<>>
                /\ tasks[t].pc = "done" => tasks[t].notes = <<"auth_error">>
                /\ tasks[t].pc # "done" => tasks[t].notes = <<>>)
    /\ [][(CredentialMissing /\ TaskStepped) =>
            UNCHANGED <<is_recording, audio_buffer, recording_lock, cap_pc,
                        key_pc, listener, stop_event, nreads>>]_vars

\* Without an API secret the first attempt was aborted, and a later recording
\* was made and handed to a second attempt.
C12_Witness ==
    /\ creds.apisecret = ""
    /\ tasks[1].pc = "done"
    /\ tasks[2].pc = "start"
    /\ tasks[2].audio_data # tasks[1].audio_data

Returned(fn) == call.fn = fn /\ call.returned

\* C13: for every transcript, dispatch selects the entry declared first among
\* those whose trigger phrase occurs in the transcript and publishes its
\* velocities; it publishes nothing exactly when no trigger phrase occurs,
\* as for the empty transcript; "qing ting zhi" selects the entry "ting".
C13_FirstDeclaredMatchWins ==
    Returned("handle_final_result") =>
        LET text == call.text
            r == call.out
            hits == {i \in 1..Len(commands) : Contains(text, commands[i].cmd)}
        IN  /\ hits # {} =>
                  \E i \in hits :
                      /\ \A j \in hits : i <= j
                      /\ r.note = "executed"
                      /\ r.cmd = commands[i].cmd
                      /\ r.publish = <<commands[i].twist>>
            /\ hits = {} =>
                  /\ r.publish = <<>>
                  /\ r.note = IF Len(text) = 0 THEN "empty_result"
                                               ELSE "no_match"
            /\ Len(text) = 0 => hits = {}
            /\ text = <<"qing", "ting", "zhi">> => r.cmd = <<"ting">>

\* Dispatch returned for a transcript holding two triggers, the one declared
\* first standing last in the transcript.
C13_Witness ==
    /\ Returned("handle_final_result")
    /\ call.text = <<"ting", "zuo", "zhuan">>
    /\ call.out.publish = <<<<0, 5>>>>

\* The session ended after a final response, no response carrying an error
\* code, and the words received hold a trigger phrase.
RecognizedCommand(t) ==
    /\ tasks[t].pc = "done"
    /\ tasks[t].received # <<>>
    /\ msg_is_final(tasks[t].received[Len(tasks[t].received)])
    /\ ~HasError(t)
    /\ \E i \in 1..Len(commands) :
          Contains(AllWords(tasks[t].received), commands[i].cmd)

\* C14: a session whose responses, none an error, spell a transcript holding
\* a trigger phrase has published exactly one motion command, with the
\* velocities of the matched entry, over one connection on which it sent
\* start, data and end frame and which it closed; no session publishes more
\* than one motion command.
C14_ExactlyOneCommand ==
    \A t \in TaskIds :
        /\ Len(tasks[t].published) <= 1
        /\ RecognizedCommand(t) =>
              /\ \E i \in 1..Len(commands) :
                    /\ Contains(AllWords(tasks[t].received), commands[i].cmd)
                    /\ tasks[t].published = <<commands[i].twist>>
              /\ tasks[t].nconn = 1
              /\ tasks[t].sent = Protocol(t)
              /\ tasks[t].ws = "closed"
              /\ Len(tasks[t].dispatched) = 1

\* The service spelled "qian jin" in two responses and the command of that
\* entry was published.
C14_Witness ==
    \E t \in TaskIds :
        /\ RecognizedCommand(t)
        /\ AllWords(tasks[t].received) = <<"qian", "jin">>
        /\ tasks[t].published = <<<<2, 0>>>>

TerminalNotes ==
    {"executed", "no_match", "empty_result", "auth_error", "network_error"}

StreamReleased == audio_mgr.stream = "closed"

\* C16 as stated: once the stop event is set the capture loop issues no
\* device read and appends no frame, no toggle event is handled, and the
\* stream is released only when the capture loop has ended.
C16_StopHaltsCaptureAndToggles ==
    /\ [][stop_event =>
            /\ (cap_pc' = "reading" => cap_pc = "reading")
            /\ Len(audio_buffer') <= Len(audio_buffer)
            /\ ntoggles' = ntoggles]_vars
    /\ [](StreamReleased => ~CaptureAlive)

\* C16 amended: once the stop event is set the capture loop issues no device
\* read and its next loop test ends it; only the iteration under way when the
\* event was set still appends its frame.  A listener that was stopped, by
\* the quit key or by destroy_node, accepts no toggle event, and after the
\* quit key none is handled.  The stream is released by destroy_node only
\* after its join of the capture thread returned, the thread having ended or
\* the timeout having expired.
C16_StopHaltsCaptureAfterIteration ==
    /\ [][stop_event =>
            /\ (cap_pc' = "reading" => cap_pc = "reading")
            /\ (cap_pc = "while" => cap_pc' \in {"while", "exited"})
            /\ (Len(audio_buffer') > Len(audio_buffer) =>
                    cap_pc = "locked" /\ cap_pc' = "while")]_vars
    /\ [][listener # "running" => nspace' = nspace]_vars
    /\ [][(stop_event /\ destroy_timer) => ntoggles' = ntoggles]_vars
    /\ [][(StreamReleased' /\ ~StreamReleased) =>
            /\ destroy_pc \in {"close", "close_after_timeout"}
            /\ stop_event /\ listener # "running"
            /\ (CaptureAlive => destroy_pc = "close_after_timeout")]_vars
    /\ [](destroy_pc = "close" => ~CaptureAlive)

\* The quit key came during a recording; the capture loop appended the frame
\* it was reading, ended at its loop test, and destroy_node released the
\* stream.
C16_Witness ==
    /\ stop_event /\ destroy_timer
    /\ is_recording /\ audio_buffer # <<>>
    /\ cap_pc = "exited"
    /\ StreamReleased /\ destroy_pc = "done"

\* C17: until the stop event is set the capture loop is running, whatever
\* the device reads and the processing of frames did, and outside its with
\* block the capture thread does not hold the lock.
C17_CaptureLoopSurvives ==
    /\ ~stop_event => CaptureAlive
    /\ ~InCritical(cap_pc) => recording_lock # "capture"

\* C18: close() raises in no state of the manager (stream never opened,
\* open, or closed by an earlier call) and leaves the stream released, where
\* there was one, and the device handle terminated; a second call changes
\* nothing.
C18_CloseIdempotent ==
    (call.fn = "close" /\ call.ncalls >= 1) =>
        /\ ~call.raised
        /\ call.mgr.stream \in {None, "closed"}
        /\ call.mgr.stream = None <=> call.before.stream = None
        /\ call.mgr.p = "terminated"
        /\ call.ncalls >= 2 => call.mgr = call.before

\* close() was called twice on a manager whose stream was never opened.
C18_Witness ==
    /\ call.fn = "close" /\ call.ncalls = 2
    /\ call.mgr.stream = None
    /\ call.mgr.p = "terminated"

FramesOf(bytes) == {bytes[i] : i \in 1..Len(bytes)}

InTargetFormat(c) == c.rate = RATE_TARGET /\ c.channels = CHANNELS_TARGET

\* C19 as stated: for every native rate and channel count the frame resample
\* returns, and so the frame appended to the buffer, is 16000 Hz mono; it is
\* the input itself when no resampling is required.
C19_AlwaysTargetFormat ==
    Returned("capture_frame") =>
        /\ \A c \in FramesOf(call.out) : InTargetFormat(c)
        /\ \A c \in FramesOf(Join(call.buffer)) : InTargetFormat(c)
        /\ ~call.mgr.resample_required => call.out = call.data

\* C19 amended: the frame returned and appended is mono and keeps the
\* samples' order; it is at 16000 Hz unless librosa.resample raised, and then
\* it is at the native rate of the device; it is the input itself when no
\* resampling is required.
C19_TargetFormatUnlessResampleFails ==
    Returned("capture_frame") =>
        /\ call.buffer = <<call.out>>
        /\ IdsOf(call.out) = IdsOf(call.data)
        /\ \A c \in FramesOf(call.out) :
              /\ c.channels = CHANNELS_TARGET
              /\ c.rate = IF call.librosa_ok THEN RATE_TARGET
                                             ELSE call.mgr.input_rate
        /\ ~call.librosa_ok =>
              call.mgr.resample_required /\ call.mgr.input_rate # RATE_TARGET
        /\ ~call.mgr.resample_required =>
              call.out = call.data /\ InTargetFormat(call.data[1])

\* A stereo frame at 48000 Hz was resampled.
C19_Witness ==
    /\ Returned("capture_frame")
    /\ call.data[1].rate = 48000 /\ call.data[1].channels = 2
    /\ call.librosa_ok
    /\ InTargetFormat(call.buffer[1][1])

Shadowed ==
    { <<"ting", "zhi">>, <<"yuan", "di", "zuo", "zhuan">>,
      <<"yuan", "di", "you", "zhuan">> }

\* C20: with the table as declared, no transcript selects "ting zhi",
\* "yuan di zuo zhuan" or "yuan di you zhuan"; the transcript
\* "yuan di zuo zhuan" publishes (0.0, 0.5) and "yuan di you zhuan"
\* publishes (0.0, -0.5), and (0.0, 1.0) and (0.0, -1.0) are never published.
C20_ShadowedEntriesNeverSelected ==
    Returned("handle_final_result") =>
        /\ call.out.note = "executed" => call.out.cmd \notin Shadowed
        /\ call.text = <<"yuan", "di", "zuo", "zhuan">> =>
              call.out.publish = << <<0, 5>> >>
        /\ call.text = <<"yuan", "di", "you", "zhuan">> =>
              call.out.publish = << <<0, -5>> >>
        /\ \A i \in 1..Len(call.out.publish) :
              call.out.publish[i] \notin {<<0, 10>>, <<0, -10>>}

\* Dispatch returned for the transcript "yuan di zuo zhuan".
C20_Witness ==
    /\ Returned("handle_final_result")
    /\ call.text = <<"yuan", "di", "zuo", "zhuan">>
    /\ call.out.cmd = <<"zuo", "zhuan">>

TypeOK ==
    /\ is_recording \in BOOLEAN
    /\ stop_event \in BOOLEAN
    /\ recording_lock \in {"free", "capture", "key"}
    /\ cap_pc \in {"unborn", "while", "reading", "acquire", "locked", "exited",
                  "crashed"}
    /\ destroy_pc \in {"idle", "listener", "join", "close",
                      "close_after_timeout", "done"}
    /\ key_pc \in {"idle", "acquire", "locked"}
    /\ nreads \in 0..MaxReads
    /\ nspace \in 0..MaxToggles
    /\ ntoggles \in 0..nspace
====
